---- MODULE Spec2Model ----
\* The context menu of wezterm-gui (termwindow/contextmenu.rs): a ContextMenu
\* value, the TermWindow fields it reads and the host calls it makes.
\*
\* Numbers.  Every f32 the code computes is a product of an integer number of
\* pixels (pointer coordinates, viewport size, cell size: all isize/usize cast
\* to f32) with the literals 25, 1.2, 1.5 and 0.75.  They are kept here as
\* exact integers counting twentieths of a pixel (Unit), so 1.2 is 24/20,
\* 1.5 is 30/20 and 0.75 is 15/20.  Of these only 1.2 is rounded in f32: the
\* literal is Mant12 / 2^23, a little more than 1.2.  The rounding can change
\* a result only where a pointer coordinate lies exactly on a boundary.  A
\* row boundary (15 + 24*i) * h / 20 is a whole pixel only when 4 divides the
\* cell height h, and there the quotient of row_at_coords is computed as f32
\* computes it (quotient_as_i32).  The menu height (12*N + 15) * h / 10 is a
\* whole pixel only when 10 divides (12*N + 15) * h, which no cell height and
\* item list explored makes happen, so the bounds check is exact.
\*
\* Host.  cancel_modal drops the modal, after which the host delivers no
\* further call to it: every handler is guarded by term_window.modal.  The
\* panics of compute (expect on the font, unwrap of render_state) end the
\* process and are not steps of the model; the error compute returns is.
EXTENDS Integers, Sequences, FiniteSets, TLC

VARIABLES
    items,            \* ContextMenu.items
    element,          \* ContextMenu.element: None or Some(visual)
    selected_row,     \* ContextMenu.selected_row
    initial_mouse,    \* ContextMenu.initial_mouse_x / initial_mouse_y
    geometry,         \* ContextMenu.row_height, menu_x, menu_y, menu_width, menu_height
    term_window,      \* the TermWindow fields read or changed through the handlers
    last              \* the last operation: its name, arguments, result and host calls

vars == <<items, element, selected_row, initial_mouse, geometry, term_window, last>>

-----------------------------------------------------------------------------
\* Bounds of the exploration.

MaxCell == 2          \* cell width and height range over 1..MaxCell pixels
MaxAnchor == 0        \* Spec opens the menu with the pointer at (a, a), a in 0..MaxAnchor
MaxCoord == 24        \* pointer events carry y in -1..MaxCoord
MaxRows == 6          \* longest item list of SpecNav
SmallWidth == 20      \* a viewport narrower than the menu
SmallHeight == 10     \* a viewport lower than the menu
LargeSide == 100      \* a viewport side that holds the menu, also with cells TallCell high
TallCell == 4         \* SpecHit adds this cell height to 1..MaxCell

-----------------------------------------------------------------------------
\* Values.

Unit == 20
WidthCells == 25
PerRowFactor == 24
ChromeFactor == 30
PaddingFactor == 15

\* The f32 nearest to 1.2 is Mant12 / 2^23.
Mant12 == 10066330
MantBits == 24

None == [some |-> FALSE]
Some(v) == [some |-> TRUE, value |-> v]

Min(a, b) == IF a <= b THEN a ELSE b
Max(a, b) == IF a >= b THEN a ELSE b

\* `n as f32` for an integer number of pixels.
F(n) == n * Unit

Entry(action) == [kind |-> "Entry", action |-> action]
Separator == [kind |-> "Separator", action |-> "-"]

\* The item list ContextMenu::new builds; multi is the answer of
\* tab.count_panes().unwrap_or(1) > 1 for the active tab.
NewItems(multi) ==
    <<Entry("SplitHorizontal"), Entry("SplitVertical")>>
    \o (IF multi
        THEN <<Separator, Entry("RotatePanesCounterClockwise"),
               Entry("RotatePanesClockwise"), Entry("PaneSelect")>>
        ELSE <<>>)
    \o (IF multi THEN <<Separator, Entry("TogglePaneZoomState")>> ELSE <<>>)
    \o <<Separator, Entry("SpawnTab"), Entry("SpawnWindow")>>
    \o <<Separator, Entry("MoveTabRelativeLeft"), Entry("MoveTabRelativeRight")>>
    \o (IF multi THEN <<Separator, Entry("CloseCurrentPane")>> ELSE <<>>)

\* Rows are indexed from 0 in the code; items[row as usize] is items[row + 1] here.
ItemAt(its, row) == its[row + 1]

ZeroGeometry ==
    [row_height |-> 0, menu_x |-> 0, menu_y |-> 0, menu_width |-> 0, menu_height |-> 0]

Call(fn, arg) == [fn |-> fn, arg |-> arg]

Did(op, kind, row, ret, calls) ==
    [op |-> op, kind |-> kind, mods |-> "-", row |-> row, ret |-> ret, calls |-> calls]

\* A key_down call: kind is the key code, mods the modifiers.
KeyDid(key, mods, ret, calls) ==
    [op |-> "key_down", kind |-> key, mods |-> mods, row |-> -1, ret |-> ret, calls |-> calls]

CellSizes == [width : 1..MaxCell, height : 1..MaxCell]
HitCellSizes == [width : 1..MaxCell, height : (1..MaxCell) \cup {TallCell}]
SquareCells == {[width |-> c, height |-> c] : c \in 1..MaxCell}
Dimensions == [pixel_width : {SmallWidth, LargeSide}, pixel_height : {SmallHeight, LargeSide}]
LargeWindow == [pixel_width |-> LargeSide, pixel_height |-> LargeSide]

\* What get_active_pane_or_overlay and perform_key_assignment answer.
Outcomes == {"no_pane", "ok", "err"}

-----------------------------------------------------------------------------
\* ContextMenu

\* is_selectable: a row index that is in range and an Entry.
is_selectable(its, row) ==
    IF row < 0 \/ row >= Len(its)
    THEN FALSE
    ELSE ItemAt(its, row).kind = "Entry"

\* The scan of move_up: from new_row downwards while new_row >= 0 and not selectable.
RECURSIVE ScanUp(_, _)
ScanUp(its, new_row) ==
    IF new_row >= 0 /\ ~is_selectable(its, new_row)
    THEN ScanUp(its, new_row - 1)
    ELSE new_row

\* The scan of move_down: from new_row upwards while new_row < limit and not selectable.
RECURSIVE ScanDown(_, _)
ScanDown(its, new_row) ==
    IF new_row < Len(its) /\ ~is_selectable(its, new_row)
    THEN ScanDown(its, new_row + 1)
    ELSE new_row

\* move_up: the new selected_row; the cached element is taken in every case.
move_up_row(its, row) ==
    LET new_row == ScanUp(its, row - 1)
    IN IF new_row >= 0 THEN new_row ELSE row

move_up ==
    /\ selected_row' = move_up_row(items, selected_row)
    /\ element' = None

\* Variant of move_down_row: wraps to the first selectable row at the bottom.
move_down_row_wrapping(its, row) ==
    LET new_row == ScanDown(its, row + 1)
    IN IF new_row < Len(its) THEN new_row ELSE ScanDown(its, 0)

move_down_row(its, row) ==
    LET new_row == ScanDown(its, row + 1)
    IN IF new_row < Len(its) THEN new_row ELSE row

move_down ==
    /\ selected_row' = move_down_row(items, selected_row)
    /\ element' = None

\* Variants of set_selection: without the selectable check on rows in range;
\* taking the cached element before the selectable check; taking it whenever
\* the row is selectable; never taking it.
set_selection_keeps_element(row) ==
    IF ~is_selectable(items, row)
    THEN UNCHANGED <<selected_row, element>>
    ELSE selected_row' = row /\ UNCHANGED element

set_selection_any_row(row) ==
    IF row < 0 \/ row >= Len(items)
    THEN UNCHANGED <<selected_row, element>>
    ELSE IF selected_row # row
         THEN selected_row' = row /\ element' = None
         ELSE UNCHANGED <<selected_row, element>>

set_selection_takes_first(row) ==
    /\ element' = None
    /\ selected_row' = IF is_selectable(items, row) THEN row ELSE selected_row

set_selection_always_takes(row) ==
    IF ~is_selectable(items, row)
    THEN UNCHANGED <<selected_row, element>>
    ELSE selected_row' = row /\ element' = None

\* set_selection: returns early for a row that is not selectable; takes the
\* cached element only when the index changes.
set_selection(row) ==
    IF ~is_selectable(items, row)
    THEN UNCHANGED <<selected_row, element>>
    ELSE IF selected_row # row
         THEN selected_row' = row /\ element' = None
         ELSE UNCHANGED <<selected_row, element>>

\* activate_selected: the host calls it makes, given the selection on entry
\* and what the host answers (no active pane; the action ran; the action failed).
activates(its, selected_idx) ==
    /\ selected_idx >= 0
    /\ selected_idx < Len(its)
    /\ ItemAt(its, selected_idx).kind = "Entry"

\* Variants of activate_calls: the modal is cancelled only after the action
\* succeeded; the sentinel selection activates the first row; the action is
\* performed before the modal is cancelled.
activate_calls_close_on_success(its, selected_idx, outcome) ==
    IF activates(its, selected_idx)
    THEN IF outcome = "no_pane"
         THEN <<Call("cancel_modal", "-")>>
         ELSE <<Call("perform_key_assignment", ItemAt(its, selected_idx).action)>>
              \o (IF outcome = "err"
                  THEN <<Call("log_error", "-")>>
                  ELSE <<Call("cancel_modal", "-")>>)
    ELSE <<>>

activate_calls_sentinel_first(its, selected_idx, outcome) ==
    LET idx == Max(selected_idx, 0)
    IN IF activates(its, idx)
       THEN <<Call("cancel_modal", "-")>>
            \o (IF outcome # "no_pane"
                THEN <<Call("perform_key_assignment", ItemAt(its, idx).action)>>
                     \o (IF outcome = "err" THEN <<Call("log_error", "-")>> ELSE <<>>)
                ELSE <<>>)
       ELSE <<>>

activate_calls_dispatch_first(its, selected_idx, outcome) ==
    IF activates(its, selected_idx)
    THEN (IF outcome # "no_pane"
          THEN <<Call("perform_key_assignment", ItemAt(its, selected_idx).action)>>
               \o (IF outcome = "err" THEN <<Call("log_error", "-")>> ELSE <<>>)
          ELSE <<>>)
         \o <<Call("cancel_modal", "-")>>
    ELSE <<>>

activate_calls(its, selected_idx, outcome) ==
    IF activates(its, selected_idx)
    THEN <<Call("cancel_modal", "-")>>
         \o (IF outcome # "no_pane"
             THEN <<Call("perform_key_assignment", ItemAt(its, selected_idx).action)>>
                  \o (IF outcome = "err" THEN <<Call("log_error", "-")>> ELSE <<>>)
             ELSE <<>>)
    ELSE <<>>

\* The effect of a sequence of host calls on the TermWindow: cancel_modal
\* closes the modal, perform_key_assignment runs the action.
RECURSIVE ApplyCalls(_, _)
ApplyCalls(tw, calls) ==
    IF calls = <<>>
    THEN tw
    ELSE LET c == Head(calls)
             tw2 == IF c.fn = "cancel_modal"
                    THEN [tw EXCEPT !.modal = FALSE]
                    ELSE IF c.fn = "perform_key_assignment"
                    THEN [tw EXCEPT !.performed = Append(@, c.arg)]
                    ELSE tw
         IN ApplyCalls(tw2, Tail(calls))

\* f32 arithmetic on positive values held as integers v standing for v / 2^23.
\* RoundF32 rounds to MantBits significant bits, ties to even.
RECURSIVE F32Step(_)
F32Step(v) == IF v < 2^MantBits THEN 1 ELSE 2 * F32Step(v \div 2)

RoundF32(v) ==
    LET s == F32Step(v)
        q == v \div s
        r == v % s
    IN IF 2 * r < s THEN q * s
       ELSE IF 2 * r > s THEN (q + 1) * s
       ELSE IF q % 2 = 0 THEN q * s ELSE (q + 1) * s

RECURSIVE Pow2AtLeast(_, _)
Pow2AtLeast(m, p) == IF m <= p THEN p ELSE Pow2AtLeast(m, 2 * p)

\* item_height = row_height * 1.2 for a cell h pixels high, times 2^23.
item_height_f32(h) == RoundF32(h * Mant12)

\* (relative_y / item_height) as i32, for relative_y >= 0 in twentieths of a
\* pixel and row_height = 20 * h twentieths.  relative_y is exact in f32 (whole
\* pixels less 0.75 * h).  Against the exact item height 1.2 * h the quotient
\* is m0, remainder r.  The f32 item height exceeds 1.2 * h by
\* excess / (5 * 2^23), a relative error below 2^-23, so the f32 quotient
\* truncates to m0 as well unless r = 0 and the true quotient
\* m0 * 1.2 * h / item_height, which then lies below m0 by
\* m0 * excess / (5 * item_height * 2^23), is more than half a unit in the last
\* place (2^-25 of the power of two at or above m0) away from m0: then the
\* division rounds to the f32 below m0 and the cast gives m0 - 1.
quotient_as_i32(relative_y, row_height) ==
    LET h == row_height \div Unit
        exact_height == (row_height * PerRowFactor) \div Unit
        m0 == relative_y \div exact_height
        r == relative_y % exact_height
        excess == 5 * item_height_f32(h) - 6 * h * 2^(MantBits - 1)
    IN IF /\ r = 0
          /\ m0 > 0
          /\ excess > 0
          /\ m0 * (2^(MantBits + 1) \div Pow2AtLeast(m0, 1))
                > (5 * item_height_f32(h)) \div excess
       THEN m0 - 1
       ELSE m0

\* Variants of row_at_coords: a geometry that was never computed is not
\* rejected (the division 0.0 / 0.0 is NaN, which `as i32` turns into 0); the
\* bounds check forgets the right edge.
row_at_coords_no_height_check(its, g, x, y) ==
    IF x < g.menu_x \/ x > g.menu_x + g.menu_width
       \/ y < g.menu_y \/ y > g.menu_y + g.menu_height
    THEN -1
    ELSE LET padding_top == (g.row_height * PaddingFactor) \div Unit
             relative_y == y - g.menu_y - padding_top
         IN IF relative_y < 0
            THEN 0
            ELSE LET row == IF g.row_height = 0 THEN 0
                            ELSE quotient_as_i32(relative_y, g.row_height)
                 IN IF row >= 0 /\ row < Len(its) THEN row ELSE -1

row_at_coords_open_right(its, g, x, y) ==
    IF g.row_height <= 0
    THEN -1
    ELSE IF x < g.menu_x \/ y < g.menu_y \/ y > g.menu_y + g.menu_height
    THEN -1
    ELSE LET padding_top == (g.row_height * PaddingFactor) \div Unit
             relative_y == y - g.menu_y - padding_top
         IN IF relative_y < 0
            THEN 0
            ELSE LET row == quotient_as_i32(relative_y, g.row_height)
                 IN IF row >= 0 /\ row < Len(its) THEN row ELSE -1

\* row_at_coords, x and y in twentieths of a pixel.
row_at_coords(its, g, x, y) ==
    IF g.row_height <= 0
    THEN -1
    ELSE IF x < g.menu_x \/ x > g.menu_x + g.menu_width
            \/ y < g.menu_y \/ y > g.menu_y + g.menu_height
    THEN -1
    ELSE LET padding_top == (g.row_height * PaddingFactor) \div Unit
             relative_y == y - g.menu_y - padding_top
         IN IF relative_y < 0
            THEN 0
            ELSE LET row == quotient_as_i32(relative_y, g.row_height)
                 IN IF row >= 0 /\ row < Len(its) THEN row ELSE -1

\* compute: the geometry it returns (the visual is the row it highlights).
menu_width_of(tw) == WidthCells * F(tw.cell_size.width)
menu_height_of(its, tw) ==
    ((Len(its) * PerRowFactor + ChromeFactor) * F(tw.cell_size.height)) \div Unit

\* Variants of clamp_origin: without .max(0.); with .max(0.) applied before .min(..).
clamp_origin_no_floor(anchor, viewport, size) == Min(anchor, viewport - size)
clamp_origin_floor_first(anchor, viewport, size) == Min(Max(anchor, 0), viewport - size)

clamp_origin(anchor, viewport, size) == Max(Min(anchor, viewport - size), 0)

compute_geometry(tw, its, anchor) ==
    [row_height |-> F(tw.cell_size.height),
     menu_x |-> clamp_origin(anchor.x, F(tw.dimensions.pixel_width), menu_width_of(tw)),
     menu_y |-> clamp_origin(anchor.y, F(tw.dimensions.pixel_height),
                             menu_height_of(its, tw)),
     menu_width |-> menu_width_of(tw),
     menu_height |-> menu_height_of(its, tw)]

\* The visual: which row is drawn inverted (an Entry whose index is the
\* selection; a Separator is never inverted) and the bounds it is placed in.
compute_element(tw, its, sel, anchor) ==
    [highlight |-> IF is_selectable(its, sel) THEN sel ELSE -1,
     bounds |-> compute_geometry(tw, its, anchor)]

-----------------------------------------------------------------------------
\* Construction

NewTermWindow(d, cs) ==
    [dimensions |-> d, cell_size |-> cs, modal |-> TRUE, performed |-> <<>>]

\* ContextMenu::new(term_window, mouse_x, mouse_y)
new(its, mouse_x, mouse_y) ==
    /\ items = its
    /\ element = None
    /\ selected_row = 0
    /\ initial_mouse = [x |-> F(mouse_x), y |-> F(mouse_y)]
    /\ geometry = ZeroGeometry
    /\ last = Did("new", "-", -1, "ok", <<>>)

Init ==
    /\ \E cs \in SquareCells : term_window = NewTermWindow(LargeWindow, cs)
    /\ \E multi \in BOOLEAN, a \in 0..MaxAnchor : new(NewItems(multi), a, a)

-----------------------------------------------------------------------------
\* Modal for ContextMenu.  The handlers run while the modal is open.

Keys == {"Escape", "q", "c", "UpArrow", "k", "p", "DownArrow", "j", "n", "Enter", "x"}
Mods == {"NONE", "CTRL", "SHIFT"}

IsCancelKey(key, mods) ==
    \/ key = "Escape" /\ mods = "NONE"
    \/ key = "q" /\ mods = "NONE"
    \/ key = "c" /\ mods = "CTRL"

\* Variant of IsUpKey: the modifiers are not looked at.
IsUpKey_any_mods(key, mods) == key \in {"UpArrow", "k", "p"}

IsUpKey(key, mods) ==
    \/ key = "UpArrow" /\ mods = "NONE"
    \/ key = "k" /\ mods = "NONE"
    \/ key = "p" /\ mods = "CTRL"

IsDownKey(key, mods) ==
    \/ key = "DownArrow" /\ mods = "NONE"
    \/ key = "j" /\ mods = "NONE"
    \/ key = "n" /\ mods = "CTRL"

IsEnterKey(key, mods) == key = "Enter" /\ mods = "NONE"

\* key_down(key, mods, term_window)
key_down(key, mods) ==
    /\ term_window.modal
    /\ UNCHANGED <<items, initial_mouse, geometry>>
    /\ IF IsCancelKey(key, mods)
       THEN LET calls == <<Call("cancel_modal", "-"), Call("invalidate_modal", "-")>>
            IN /\ UNCHANGED <<selected_row, element>>
               /\ term_window' = ApplyCalls(term_window, calls)
               /\ last' = KeyDid(key, mods, "handled", calls)
       ELSE IF IsUpKey(key, mods)
       THEN /\ move_up
            /\ UNCHANGED term_window
            /\ last' = KeyDid(key, mods, "handled", <<Call("invalidate_modal", "-")>>)
       ELSE IF IsDownKey(key, mods)
       THEN /\ move_down
            /\ UNCHANGED term_window
            /\ last' = KeyDid(key, mods, "handled", <<Call("invalidate_modal", "-")>>)
       ELSE IF IsEnterKey(key, mods)
       THEN \E outcome \in (IF activates(items, selected_row) THEN Outcomes ELSE {"no_pane"}) :
               LET calls == activate_calls(items, selected_row, outcome)
               IN /\ UNCHANGED <<selected_row, element>>
                  /\ term_window' = ApplyCalls(term_window, calls)
                  /\ last' = KeyDid(key, mods, "handled", calls)
       ELSE /\ UNCHANGED <<selected_row, element, term_window>>
            /\ last' = KeyDid(key, mods, "not_handled", <<>>)

KeyDown == \E key \in Keys, mods \in Mods : key_down(key, mods)

\* term_window.current_mouse_event: None, or the pointer position in pixels:
\* every y of the column x = 1 and, on the row y = 1, a column left of the
\* window and one right of a menu one cell-pixel wide.
PointerXs == {-1, 1, WidthCells + 2}
MouseCoords == [x : {1}, y : -1..MaxCoord] \cup [x : PointerXs, y : {1}]
MouseEvents == {None} \cup {Some(c) : c \in MouseCoords}

coords_of(ev) ==
    IF ev.some THEN [x |-> F(ev.value.x), y |-> F(ev.value.y)] ELSE [x |-> 0, y |-> 0]

row_of(ev) == row_at_coords(items, geometry, coords_of(ev).x, coords_of(ev).y)

\* Variant of mouse_event: the Press arm activates whatever row_at_coords answers.
mouse_event_press_always_activates(kind, ev) ==
    LET row == row_of(ev)
    IN /\ term_window.modal
       /\ UNCHANGED <<items, initial_mouse, geometry>>
       /\ IF kind = "Move"
          THEN /\ IF row >= 0
                  THEN set_selection(row)
                  ELSE UNCHANGED <<selected_row, element>>
               /\ UNCHANGED term_window
               /\ last' = Did("mouse_event", kind, row, "ok", <<>>)
          ELSE IF kind = "Press"
          THEN /\ set_selection(row)
               /\ \E outcome \in (IF activates(items, selected_row')
                                   THEN Outcomes ELSE {"no_pane"}) :
                     LET calls == activate_calls(items, selected_row', outcome)
                     IN /\ term_window' = ApplyCalls(term_window, calls)
                        /\ last' = Did("mouse_event", kind, row, "ok", calls)
          ELSE /\ UNCHANGED <<selected_row, element, term_window>>
               /\ last' = Did("mouse_event", kind, row, "ok", <<>>)

\* mouse_event(event, term_window)
mouse_event(kind, ev) ==
    LET row == row_of(ev)
    IN /\ term_window.modal
       /\ UNCHANGED <<items, initial_mouse, geometry>>
       /\ IF kind = "Move"
          THEN /\ IF row >= 0
                  THEN set_selection(row)
                  ELSE UNCHANGED <<selected_row, element>>
               /\ UNCHANGED term_window
               /\ last' = Did("mouse_event", kind, row, "ok", <<>>)
          ELSE IF kind = "Press"
          THEN IF row >= 0
               THEN /\ set_selection(row)
                    /\ \E outcome \in (IF activates(items, selected_row')
                                        THEN Outcomes ELSE {"no_pane"}) :
                          LET calls == activate_calls(items, selected_row', outcome)
                          IN /\ term_window' = ApplyCalls(term_window, calls)
                             /\ last' = Did("mouse_event", kind, row, "ok", calls)
               ELSE LET calls == <<Call("cancel_modal", "-")>>
                    IN /\ UNCHANGED <<selected_row, element>>
                       /\ term_window' = ApplyCalls(term_window, calls)
                       /\ last' = Did("mouse_event", kind, row, "ok", calls)
          ELSE /\ UNCHANGED <<selected_row, element, term_window>>
               /\ last' = Did("mouse_event", kind, row, "ok", <<>>)

MouseMove == \E ev \in MouseEvents : mouse_event("Move", ev)

MousePress == \E ev \in MouseEvents : mouse_event("Press", ev)

MouseOther == mouse_event("Release", None)

\* Variant of computed_element: the geometry is stored before the result of
\* compute is examined.
computed_element_stores_geometry_first(compute_ok) ==
    /\ term_window.modal
    /\ UNCHANGED <<items, initial_mouse, selected_row, term_window>>
    /\ IF ~element.some
       THEN /\ geometry' = compute_geometry(term_window, items, initial_mouse)
            /\ IF compute_ok
               THEN /\ element' = Some(compute_element(term_window, items, selected_row,
                                                       initial_mouse))
                    /\ last' = Did("computed_element", "-", -1, "ok",
                                   <<Call("compute", "-")>>)
               ELSE /\ UNCHANGED element
                    /\ last' = Did("computed_element", "-", -1, "err",
                                   <<Call("compute", "-")>>)
       ELSE /\ UNCHANGED <<element, geometry>>
            /\ last' = Did("computed_element", "-", -1, "ok", <<>>)

\* computed_element(term_window): the draw request.  compute_ok is whether
\* term_window.compute_element succeeds inside compute.
computed_element(compute_ok) ==
    /\ term_window.modal
    /\ UNCHANGED <<items, initial_mouse, selected_row, term_window>>
    /\ IF ~element.some
       THEN IF compute_ok
            THEN /\ element' = Some(compute_element(term_window, items, selected_row,
                                                    initial_mouse))
                 /\ geometry' = compute_geometry(term_window, items, initial_mouse)
                 /\ last' = Did("computed_element", "-", -1, "ok", <<Call("compute", "-")>>)
            ELSE /\ UNCHANGED <<element, geometry>>
                 /\ last' = Did("computed_element", "-", -1, "err", <<Call("compute", "-")>>)
       ELSE /\ UNCHANGED <<element, geometry>>
            /\ last' = Did("computed_element", "-", -1, "ok", <<>>)

ComputedElement == \E compute_ok \in BOOLEAN : computed_element(compute_ok)

\* Variants of reconfigure: resets the stored geometry with the cached
\* element; leaves the cached element in place.
reconfigure_discards_geometry ==
    /\ term_window.modal
    /\ element' = None
    /\ geometry' = ZeroGeometry
    /\ UNCHANGED <<items, initial_mouse, selected_row, term_window>>
    /\ last' = Did("reconfigure", "-", -1, "ok", <<>>)

reconfigure_keeps_element ==
    /\ term_window.modal
    /\ UNCHANGED <<items, initial_mouse, selected_row, geometry, term_window, element>>
    /\ last' = Did("reconfigure", "-", -1, "ok", <<>>)

\* reconfigure(_term_window)
reconfigure ==
    /\ term_window.modal
    /\ element' = None
    /\ UNCHANGED <<items, initial_mouse, selected_row, geometry, term_window>>
    /\ last' = Did("reconfigure", "-", -1, "ok", <<>>)

Reconfigure == reconfigure

\* The navigation operations called directly.
\* last.row of a move is the selection the call started from.
MoveUp ==
    /\ move_up
    /\ UNCHANGED <<items, initial_mouse, geometry, term_window>>
    /\ last' = Did("move_up", "-", selected_row, "ok", <<>>)

MoveDown ==
    /\ move_down
    /\ UNCHANGED <<items, initial_mouse, geometry, term_window>>
    /\ last' = Did("move_down", "-", selected_row, "ok", <<>>)

SetSelection ==
    \E row \in -2..(Len(items) + 1) :
        /\ set_selection(row)
        /\ UNCHANGED <<items, initial_mouse, geometry, term_window>>
        /\ last' = Did("set_selection", "-", row, "ok", <<>>)

Next ==
    \/ KeyDown
    \/ MouseMove
    \/ MousePress
    \/ MouseOther
    \/ ComputedElement
    \/ Reconfigure
    \/ MoveUp
    \/ MoveDown
    \/ SetSelection

Spec == Init /\ [][Next]_vars

-----------------------------------------------------------------------------
\* SpecNav: the navigation operations of ContextMenu called directly, on every
\* item list of up to MaxRows rows and every selection that is the sentinel or
\* an Entry.

NavRow == {Entry("Activate"), Separator}
NavLists == UNION {[1..n -> NavRow] : n \in 1..MaxRows}
UnitCell == [width |-> 1, height |-> 1]

InitNav ==
    /\ term_window = NewTermWindow(LargeWindow, UnitCell)
    /\ items \in NavLists
    /\ element = None
    /\ selected_row \in {-1} \cup {r \in 0..(Len(items) - 1) : is_selectable(items, r)}
    /\ initial_mouse = [x |-> 0, y |-> 0]
    /\ geometry = ZeroGeometry
    /\ last = Did("new", "-", -1, "ok", <<>>)

NextNav ==
    \/ MoveUp
    \/ MoveDown
    \/ SetSelection
    \/ ComputedElement

SpecNav == InitNav /\ [][NextNav]_vars

-----------------------------------------------------------------------------
\* SpecKeys: the key handler and the draw request on the ContextMenu values of
\* SpecNav.  ContextMenu::new always selects row 0, an Entry; the sentinel
\* selection -1 that activate_selected guards against (selected_idx >= 0) is a
\* value of the field that only these initial states supply.

NextKeys ==
    \/ KeyDown
    \/ ComputedElement

SpecKeys == InitNav /\ [][NextKeys]_vars

-----------------------------------------------------------------------------
\* SpecLayout: compute on every anchor from one pixel left of / above the
\* window to one pixel beyond it, every window size and every cell size.

InitLayout ==
    /\ \E d \in Dimensions, cs \in CellSizes : term_window = NewTermWindow(d, cs)
    /\ \E multi \in BOOLEAN, a \in -1..(LargeSide + 1) : new(NewItems(multi), a, a)

NextLayout ==
    \/ ComputedElement
    \/ Reconfigure

SpecLayout == InitLayout /\ [][NextLayout]_vars

-----------------------------------------------------------------------------
\* SpecHit: hit-testing after layout, for every cell size, also one TallCell
\* pixels high, and for anchors from one pixel left of / above the window; the
\* pointer moves but is not pressed.

InitHit ==
    /\ \E cs \in HitCellSizes : term_window = NewTermWindow(LargeWindow, cs)
    /\ \E multi \in BOOLEAN, a \in -1..(MaxAnchor + 1) : new(NewItems(multi), a, a)

NextHit ==
    \/ ComputedElement
    \/ MouseMove
    \/ Reconfigure

SpecHit == InitHit /\ [][NextHit]_vars

-----------------------------------------------------------------------------
\* Properties.

IsSeparatorRow(row) ==
    row >= 0 /\ row < Len(items) /\ ItemAt(items, row).kind = "Separator"

IsEntryRow(row) ==
    row >= 0 /\ row < Len(items) /\ ItemAt(items, row).kind = "Entry"

Performs(calls) == \E i \in 1..Len(calls) : calls[i].fn = "perform_key_assignment"

Computes(calls) == Cardinality({i \in 1..Len(calls) : calls[i].fn = "compute"})

\* C1: in every reachable state the selection is the sentinel -1 or an index
\* in 0..N-1 whose row is an Entry; it never indexes a Separator.
C1_SelectionOnEntry == selected_row = -1 \/ IsEntryRow(selected_row)

\* A pointer event over a row below the first separator has moved the selection there.
C1_Witness ==
    /\ last.op = "mouse_event"
    /\ last.row > 2
    /\ selected_row = last.row

\* C2: a pointer Press whose coordinates map to a Separator row dispatches no
\* action and leaves the selection unchanged.
C2_PressOnSeparatorIsInert ==
    [][(last'.op = "mouse_event" /\ last'.kind = "Press" /\ IsSeparatorRow(last'.row))
       => (~Performs(last'.calls) /\ selected_row' = selected_row)]_vars

\* A call of move_up or move_down, directly or through an Up or Down key.
MoveStep ==
    \/ last'.op \in {"move_up", "move_down"}
    \/ last'.op = "key_down" /\ last'.calls = <<Call("invalidate_modal", "-")>>

\* A mutation: a move, a step that changes the selection index, or a reconfigure.
Mutation == MoveStep \/ selected_row' # selected_row \/ last'.op = "reconfigure"

Draw == last'.op = "computed_element"

\* What C3 says of every step, but for a draw request that follows a draw request:
\* a mutation leaves the cached visual absent, and it stays absent until a
\* draw request; a draw request that finds it absent invokes the layout
\* computation exactly once; an event that is no mutation keeps a present
\* visual, and a draw request that finds one returns it without computing.
C3_Step ==
    /\ Mutation => ~element'.some
    /\ (~element.some /\ ~Draw) => ~element'.some
    /\ (~element.some /\ Draw) => Computes(last'.calls) = 1
    /\ (element.some /\ ~Mutation /\ ~Draw) => element' = element
    /\ (element.some /\ Draw) => (Computes(last'.calls) = 0 /\ element' = element)

\* C3, as claimed: C3_Step, and every further draw request with no event
\* between it and the draw request before it returns the cached visual
\* without recomputing.
C3_AtMostOneRecompute ==
    [][/\ C3_Step
       /\ (last.op = "computed_element" /\ Draw) => Computes(last'.calls) = 0]_vars

\* C3, amended: C3_Step, and a draw request that follows a successful draw
\* request returns the cached visual without recomputing, while one that
\* follows a draw request whose layout computation failed computes again.
C3_OneRecomputePerSuccess ==
    [][/\ C3_Step
       /\ (last.op = "computed_element" /\ last.ret = "ok" /\ Draw)
            => (Computes(last'.calls) = 0 /\ last'.ret = "ok" /\ element.some)
       /\ (last.op = "computed_element" /\ last.ret = "err" /\ Draw)
            => Computes(last'.calls) = 1]_vars

\* A draw request served from the cache, with the selection moved off the first row.
C3_Witness ==
    /\ last.op = "computed_element"
    /\ Computes(last.calls) = 0
    /\ element.some
    /\ selected_row # 0

\* C4: an event that neither changes the selection index nor is a reconfigure
\* leaves a present cached visual present, so the draw request after it
\* returns the cached visual without invoking the layout computation.
C4_RecomputeOnlyAfterChange ==
    [][(element.some /\ selected_row' = selected_row /\ last'.op # "reconfigure")
       => (element'.some /\ (Draw => Computes(last'.calls) = 0))]_vars

\* The points the hit-test properties look at, in whole pixels.  Across: the
\* columns about the left edge of the window and about the right edge of a
\* menu of each cell width.  Down: every row of pixels from one above the
\* window to below the bottom of the longest menu of the first two cell heights.
ProbeXs == {-1, 0, 1} \cup {k * WidthCells + d : k \in 1..MaxCell, d \in -1..2}
ProbeYs == -1..(2 * MaxCoord)

StrictlyOutside(g, x, y) ==
    \/ x < g.menu_x
    \/ x > g.menu_x + g.menu_width
    \/ y < g.menu_y
    \/ y > g.menu_y + g.menu_height

\* The first y (relative to the menu origin) below the band of the last row:
\* (0.75 + 1.2 * N) * row_height.
BottomChrome(its, g) == ((PaddingFactor + PerRowFactor * Len(its)) * g.row_height) \div Unit

\* C5, as claimed: with geometry computed, row_at is Outside for every point
\* strictly outside the menu rectangle and a row index in 0..N-1 for every
\* point inside it.
C5_InsideIsARow ==
    geometry.row_height > 0 =>
        \A px \in ProbeXs, py \in ProbeYs :
            LET row == row_at_coords(items, geometry, F(px), F(py))
            IN IF StrictlyOutside(geometry, F(px), F(py))
               THEN row = -1
               ELSE row \in 0..(Len(items) - 1)

\* C5, amended: Outside for every point strictly outside the rectangle; for
\* a point inside it, a row index in 0..N-1 when the point is above the
\* bottom chrome (y - originY < (0.75 + 1.2 * N) * rowHeight), and Outside
\* when it is in the bottom chrome.
C5_InsideIsARowAboveBottomChrome ==
    geometry.row_height > 0 =>
        \A px \in ProbeXs, py \in ProbeYs :
            LET row == row_at_coords(items, geometry, F(px), F(py))
            IN IF StrictlyOutside(geometry, F(px), F(py))
               THEN row = -1
               ELSE IF F(py) - geometry.menu_y < BottomChrome(items, geometry)
               THEN row \in 0..(Len(items) - 1)
               ELSE row = -1

\* The geometry has been computed and the probed points include one right
\* of the menu, one on its last row and one in its bottom chrome.
C5_Witness ==
    /\ geometry.row_height > 0
    /\ \E px \in ProbeXs, py \in ProbeYs :
          /\ px > 0
          /\ F(px) > geometry.menu_x + geometry.menu_width
          /\ F(py) >= geometry.menu_y /\ F(py) <= geometry.menu_y + geometry.menu_height
    /\ \E py \in ProbeYs :
          row_at_coords(items, geometry, F(1), F(py)) = Len(items) - 1
    /\ \E py \in ProbeYs :
          /\ ~StrictlyOutside(geometry, F(1), F(py))
          /\ F(py) - geometry.menu_y >= BottomChrome(items, geometry)

\* The stored geometry is the one compute returned for the current window.
Computed ==
    /\ last.op = "computed_element"
    /\ last.ret = "ok"
    /\ Computes(last.calls) = 1

MenuFits ==
    /\ F(term_window.dimensions.pixel_width) >= geometry.menu_width
    /\ F(term_window.dimensions.pixel_height) >= geometry.menu_height

MaxX == F(term_window.dimensions.pixel_width) - geometry.menu_width
MaxY == F(term_window.dimensions.pixel_height) - geometry.menu_height

\* C6: for any anchor and any viewport at least as large as the menu in both
\* dimensions, the origin satisfies 0 <= x <= viewportWidth - menuWidth and
\* 0 <= y <= viewportHeight - menuHeight, and equals the anchor whenever the
\* anchor already lies in that range.
C6_OriginInsideViewport ==
    (Computed /\ MenuFits) =>
        /\ 0 <= geometry.menu_x /\ geometry.menu_x <= MaxX
        /\ 0 <= geometry.menu_y /\ geometry.menu_y <= MaxY
        /\ (0 <= initial_mouse.x /\ initial_mouse.x <= MaxX)
              => geometry.menu_x = initial_mouse.x
        /\ (0 <= initial_mouse.y /\ initial_mouse.y <= MaxY)
              => geometry.menu_y = initial_mouse.y

\* The menu fits and the anchor lies beyond the range in both dimensions.
C6_Witness ==
    /\ Computed
    /\ MenuFits
    /\ initial_mouse.x > F(term_window.dimensions.pixel_width)
    /\ initial_mouse.y > F(term_window.dimensions.pixel_height)
    /\ geometry.menu_x = MaxX
    /\ geometry.menu_y = MaxY

\* C7: when the menu is larger than the viewport in a dimension, the origin
\* coordinate in that dimension is 0 for every anchor.
C7_OversizeMenuAtZero ==
    Computed =>
        /\ geometry.menu_width > F(term_window.dimensions.pixel_width)
              => geometry.menu_x = 0
        /\ geometry.menu_height > F(term_window.dimensions.pixel_height)
              => geometry.menu_y = 0

\* Anchor (0, 0), a 20 x 10 viewport and a menu larger than it both ways.
C7_Witness ==
    /\ Computed
    /\ initial_mouse = [x |-> 0, y |-> 0]
    /\ term_window.dimensions = [pixel_width |-> SmallWidth, pixel_height |-> SmallHeight]
    /\ geometry.menu_width > F(SmallWidth)
    /\ geometry.menu_height > F(SmallHeight)
    /\ geometry.menu_x = 0
    /\ geometry.menu_y = 0

\* The selectable rows below and above a row.
SelectableBelow(row) == {r \in (row + 1)..(Len(items) - 1) : ItemAt(items, r).kind = "Entry"}
SelectableAbove(row) == {r \in 0..(row - 1) : ItemAt(items, r).kind = "Entry"}

Least(S) == CHOOSE r \in S : \A q \in S : r <= q
Greatest(S) == CHOOSE r \in S : \A q \in S : r >= q

\* Entries at 0, 1, 2, 4, 5 and a separator at 3.
Scenario ==
    <<Entry("Activate"), Entry("Activate"), Entry("Activate"), Separator,
      Entry("Activate"), Entry("Activate")>>

\* C8: move_down sets the selection to the smallest selectable index greater
\* than the current one if there is one and otherwise leaves it unchanged;
\* move_up does the same with the largest selectable index smaller than the
\* current one.  With entries at 0, 1, 2, 4, 5 and a separator at 3, move_down
\* goes from 0 to 1, from 1 to 2 and from 2 to 4.
C8_MovesToNearestSelectable ==
    [][/\ last'.op = "move_down" =>
            selected_row' = IF SelectableBelow(selected_row) = {}
                            THEN selected_row
                            ELSE Least(SelectableBelow(selected_row))
       /\ last'.op = "move_up" =>
            selected_row' = IF SelectableAbove(selected_row) = {}
                            THEN selected_row
                            ELSE Greatest(SelectableAbove(selected_row))
       /\ (last'.op = "move_down" /\ items = Scenario /\ selected_row \in {0, 1, 2}) =>
            selected_row' = IF selected_row = 2 THEN 4 ELSE selected_row + 1]_vars

\* The third move_down of the scenario: from row 2 over the separator to row 4.
C8_Witness ==
    /\ items = Scenario
    /\ last.op = "move_down"
    /\ last.row = 2
    /\ selected_row = 4

\* C9: set_selection(row) with row a Separator index or an index out of
\* range changes neither the selection nor the cached visual, present or
\* absent; the same holds for a pointer Move over a separator row.
C9_UnselectableRowIsNoOp ==
    [][/\ (last'.op = "set_selection" /\ ~IsEntryRow(last'.row))
            => (selected_row' = selected_row /\ element' = element)
       /\ (last'.op = "mouse_event" /\ last'.kind = "Move" /\ IsSeparatorRow(last'.row))
            => (selected_row' = selected_row /\ element' = element)]_vars

\* A pointer Move over a separator row with the cached visual present.
C9_Witness ==
    /\ last.op = "mouse_event"
    /\ last.kind = "Move"
    /\ IsSeparatorRow(last.row)
    /\ element.some

\* C10: set_selection(row) with row equal to the current selection leaves
\* the cached visual as it is, also when reached by a pointer Move over the
\* selected row, so a present visual stays present and the next draw request
\* does not recompute.
C10_SameRowKeepsCache ==
    [][((last'.op = "set_selection" \/ (last'.op = "mouse_event" /\ last'.kind = "Move"))
        /\ last'.row = selected_row)
       => (selected_row' = selected_row /\ element' = element)]_vars

\* A pointer Move over the selected row, below the first separator, with the
\* cached visual still present.
C10_Witness ==
    /\ last.op = "mouse_event"
    /\ last.kind = "Move"
    /\ last.row = selected_row
    /\ selected_row > 2
    /\ element.some

\* The host calls of an operation that request session closure.
Closes(calls) == \E i \in 1..Len(calls) : calls[i].fn = "cancel_modal"

\* The cancel keys as the claim lists them, and a Press that row_at maps to Outside.
CancelKeys == {<<"Escape", "NONE">>, <<"q", "NONE">>, <<"c", "CTRL">>}

Cancellation ==
    \/ last'.op = "key_down" /\ <<last'.kind, last'.mods>> \in CancelKeys
    \/ last'.op = "mouse_event" /\ last'.kind = "Press" /\ last'.row = -1

\* C11: the keys Escape, q and Ctrl+c, and a pointer Press for which row_at
\* returns Outside, each request session closure (the session is Closed
\* after them), dispatch no action and leave the selection unchanged.
C11_CancelNeverDispatches ==
    [][Cancellation =>
         /\ Closes(last'.calls)
         /\ ~term_window'.modal
         /\ ~Performs(last'.calls)
         /\ term_window'.performed = term_window.performed
         /\ selected_row' = selected_row]_vars

\* A Press right of a drawn menu, with the selection moved off the first row,
\* has closed the session.
C11_Witness ==
    /\ last.op = "mouse_event"
    /\ last.kind = "Press"
    /\ last.row = -1
    /\ geometry.row_height > 0
    /\ selected_row # 0
    /\ ~term_window.modal
    /\ term_window.performed = <<>>

\* A call of activate_selected: the Enter key, or a Press that row_at maps to a row.
Activation ==
    \/ last'.op = "key_down" /\ last'.kind = "Enter" /\ last'.mods = "NONE"
    \/ last'.op = "mouse_event" /\ last'.kind = "Press" /\ last'.row >= 0

Logs(calls) == \E i \in 1..Len(calls) : calls[i].fn = "log_error"

\* C12: activate with a non-sentinel selection always ends with the session
\* Closed, whether the dispatched action succeeds or fails: a dispatch
\* failure is only logged (after the dispatch), the key or pointer handler
\* does not return an error, and the session is not left Open.
C12_ActivateAlwaysCloses ==
    [][(Activation /\ selected_row' # -1) =>
         /\ Closes(last'.calls)
         /\ ~term_window'.modal
         /\ last'.ret = (IF last'.op = "key_down" THEN "handled" ELSE "ok")
         /\ Logs(last'.calls) => Performs(last'.calls)]_vars

\* The Enter key on a row below the first separator whose action failed: the
\* failure was logged and the session is Closed.
C12_Witness ==
    /\ last.op = "key_down"
    /\ last.kind = "Enter"
    /\ selected_row > 2
    /\ Logs(last.calls)
    /\ last.ret = "handled"
    /\ ~term_window.modal

\* C13: the Enter key with the sentinel (no) selection returns "handled",
\* dispatches no action, does not close the session, and leaves selection
\* and cache unchanged.
C13_EnterOnSentinelIsNoOp ==
    [][(last'.op = "key_down" /\ last'.kind = "Enter" /\ last'.mods = "NONE"
        /\ selected_row = -1)
       => /\ last'.ret = "handled"
          /\ last'.calls = <<>>
          /\ term_window' = term_window
          /\ selected_row' = selected_row
          /\ element' = element]_vars

\* The Enter key on a drawn menu whose first row is an Entry and whose
\* selection is the sentinel: the session is still Open, the visual still cached.
C13_Witness ==
    /\ last.op = "key_down"
    /\ last.kind = "Enter"
    /\ last.mods = "NONE"
    /\ selected_row = -1
    /\ IsEntryRow(0)
    /\ element.some
    /\ term_window.modal

\* The ten recognized key/modifier combinations, as the claim lists them.
RecognizedKeys ==
    {<<"Escape", "NONE">>, <<"q", "NONE">>, <<"c", "CTRL">>,
     <<"UpArrow", "NONE">>, <<"k", "NONE">>, <<"p", "CTRL">>,
     <<"DownArrow", "NONE">>, <<"j", "NONE">>, <<"n", "CTRL">>,
     <<"Enter", "NONE">>}

\* C14: every key/modifier combination other than the ten recognized ones
\* returns "not handled" and leaves the selection, the cached visual, the
\* stored geometry and the Open/Closed state unchanged, with no redraw
\* request and no dispatch (no host call at all).
C14_OtherKeysNotHandled ==
    [][(last'.op = "key_down" /\ <<last'.kind, last'.mods>> \notin RecognizedKeys)
       => /\ last'.ret = "not_handled"
          /\ last'.calls = <<>>
          /\ selected_row' = selected_row
          /\ element' = element
          /\ geometry' = geometry
          /\ term_window' = term_window]_vars

\* A recognized key code with other modifiers (k with SHIFT) on a drawn menu
\* whose selection is below the first separator: not handled, the visual kept.
C14_Witness ==
    /\ last.op = "key_down"
    /\ last.kind = "k"
    /\ last.mods = "SHIFT"
    /\ last.ret = "not_handled"
    /\ selected_row > 2
    /\ element.some
    /\ term_window.modal

C17_CacheNeverStale ==
    element.some =>
        /\ element.value.highlight = selected_row
        /\ element.value.bounds = geometry

\* A visual computed for a selection below the first separator is cached.
C17_Witness ==
    /\ element.some
    /\ element.value.highlight > 2
    /\ last.op = "computed_element"
    /\ Computes(last.calls) = 1

\* The band of row i as the claim gives it, in twentieths of a pixel:
\* originY + 0.75 * rowHeight + [i * 1.2 * rowHeight, (i + 1) * 1.2 * rowHeight).
BandLo(i) ==
    geometry.menu_y + (PaddingFactor * geometry.row_height) \div Unit
                    + (i * PerRowFactor * geometry.row_height) \div Unit
BandHi(i) == BandLo(i + 1)

\* The whole pixels p with lo <= p < hi, and the probed columns inside the menu.
Pixels(lo, hi) == {p \in ((lo \div Unit) - 1)..((hi \div Unit) + 1) : lo <= F(p) /\ F(p) < hi}
InsideXs ==
    {px \in ProbeXs : geometry.menu_x <= F(px) /\ F(px) <= geometry.menu_x + geometry.menu_width}

\* C18: with the geometry computed, the menu height is (N * 1.2 + 1.5) *
\* rowHeight; for every row i in 0..N-1 the whole band of row i lies inside
\* that height and row_at maps every point of the band (with x inside) to i;
\* points inside the bounds above the first band map to row 0.  The points
\* are the whole pixels, which is what a pointer event carries.
C18_BandsMatchLayout ==
    geometry.row_height > 0 =>
        /\ geometry.menu_height * Unit
              = (Len(items) * PerRowFactor + ChromeFactor) * geometry.row_height
        /\ \A i \in 0..(Len(items) - 1) :
              /\ geometry.menu_y <= BandLo(i)
              /\ BandHi(i) <= geometry.menu_y + geometry.menu_height
              /\ Pixels(BandLo(i), BandHi(i)) # {}
              /\ \A py \in Pixels(BandLo(i), BandHi(i)), px \in InsideXs :
                    row_at_coords(items, geometry, F(px), F(py)) = i
        /\ \A py \in Pixels(geometry.menu_y, BandLo(0)), px \in InsideXs :
              row_at_coords(items, geometry, F(px), F(py)) = 0

\* The pixels about the corner (0, 0), the only point a rectangle of no
\* extent at the origin contains.
CornerPixels == {-1, 0, 1}

\* C19: before the first successful draw request (stored rowHeight still 0)
\* row_at returns Outside for every point, so every pointer Press cancels the
\* session without dispatching an action and every pointer Move leaves the
\* selection unchanged, whatever the pointer coordinates.
C19_NoHitBeforeFirstDraw ==
    [][geometry.row_height = 0 =>
         /\ \A px \in CornerPixels, py \in CornerPixels :
               row_at_coords(items, geometry, F(px), F(py)) = -1
         /\ last'.op = "mouse_event" =>
               /\ last'.row = -1
               /\ selected_row' = selected_row
               /\ element' = element
               /\ ~Performs(last'.calls)
               /\ term_window'.performed = <<>>
               /\ last'.kind = "Press" => (Closes(last'.calls) /\ ~term_window'.modal)
               /\ last'.kind = "Move" => term_window' = term_window]_vars

\* A Press before any draw request succeeded, after the selection was moved
\* off the first row by keys: the session is Closed, nothing was dispatched.
C19_Witness ==
    /\ last.op = "mouse_event"
    /\ last.kind = "Press"
    /\ last.row = -1
    /\ geometry = ZeroGeometry
    /\ selected_row > 0
    /\ ~term_window.modal
    /\ term_window.performed = <<>>

\* A step that dispatches an action.
Dispatch == term_window'.performed # term_window.performed

\* C20: over any sequence of events at most one action is dispatched; every
\* dispatch is of the action of the row selected at that moment, an Entry,
\* and happens in the operation that requests session closure, the closure
\* request coming before the dispatch; nothing is dispatched once the
\* session is Closed.
C20_OneDispatchAfterClosure ==
    [][/\ Len(term_window'.performed) <= 1
       /\ Performs(last'.calls) => Dispatch
       /\ ~term_window.modal => ~Dispatch
       /\ Dispatch =>
            /\ Activation
            /\ term_window.modal
            /\ ~term_window'.modal
            /\ IsEntryRow(selected_row')
            /\ Len(last'.calls) >= 2
            /\ last'.calls[1] = Call("cancel_modal", "-")
            /\ last'.calls[2]
                  = Call("perform_key_assignment", ItemAt(items, selected_row').action)
            /\ \A i \in 3..Len(last'.calls) : last'.calls[i].fn = "log_error"
            /\ term_window'.performed = <<ItemAt(items, selected_row').action>>]_vars

\* A Press on a row below the first separator other than the selected one
\* has dispatched the action of that row and closed the session.
C20_Witness ==
    /\ last.op = "mouse_event"
    /\ last.kind = "Press"
    /\ last.row > 2
    /\ selected_row = last.row
    /\ ~term_window.modal
    /\ term_window.performed = <<ItemAt(items, last.row).action>>
    /\ ~element.some

====
